---- MODULE Spec2Model ----
(***************************************************************************)
(* Model of src/minesweeper.py: StartWindow.on_start_game (the validation  *)
(* of N and M) and class MinesweeperWindow (board data, mine placement,    *)
(* adjacency, left_click, right_click, flood fill, win check,              *)
(* reveal-all-mines, the texts and styles of the buttons).  Each method is *)
(* an operator from the object's fields (self) to the fields it leaves;    *)
(* each handler is one action that applies its operator.                   *)
(***************************************************************************)
EXTENDS Integers, Sequences, FiniteSets, TLC

\* Board sides explored (the N of MinesweeperWindow(N, M))
GridSizes == 1 .. 3

\* Board sides of the generation exploration
GenSizes == 1 .. 4

\* Most mines placed on a board of the play exploration
MaxM == 2

\* Most flags standing at one time
MaxFlags == 1

VARIABLES N, M, board, buttons, game_over, info_label, pc,
          start_window, toggled, other

vars == <<N, M, board, buttons, game_over, info_label, pc,
          start_window, toggled, other>>

\* ------------------------------------------------------------------------
\* Python built-ins
\* ------------------------------------------------------------------------
max(a, b) == IF a >= b THEN a ELSE b

min(a, b) == IF a <= b THEN a ELSE b

\* range(a, b): a, a+1, ..., b-1
range(a, b) == a .. (b - 1)

\* Variant: k draws with replacement (random.choices), which may repeat
random_choices(population, k) ==
    {S \in SUBSET population : Cardinality(S) <= k /\ (k > 0 => S # {})}

\* random.sample(population, k): k distinct elements of the population,
\* every such choice being possible
random_sample(population, k) == {S \in SUBSET population : Cardinality(S) = k}

\* random.sample raises ValueError when k is negative or larger than the
\* population ("Sample larger than population or is negative")
sample_raises(population, k) == ~(0 <= k /\ k <= Cardinality(population))

\* A text is the sequence of its characters
Digits == <<"0", "1", "2", "3", "4", "5", "6", "7", "8", "9">>

digit_value(ch) == (CHOOSE i \in 1 .. Len(Digits) : Digits[i] = ch) - 1

\* The text without its sign
unsigned(text) ==
    IF Len(text) > 0 /\ text[1] \in {"-", "+"} THEN Tail(text) ELSE text

\* int(text) succeeds: an optional sign and at least one decimal digit
\* (the texts explored hold no white space and no underscore)
is_int_literal(text) ==
    /\ Len(unsigned(text)) > 0
    /\ \A i \in 1 .. Len(unsigned(text)) :
          \E d \in 1 .. Len(Digits) : Digits[d] = unsigned(text)[i]

RECURSIVE decimal(_, _)
\* The value of the first k digits of a digit sequence
decimal(ds, k) ==
    IF k = 0 THEN 0 ELSE 10 * decimal(ds, k - 1) + digit_value(ds[k])

\* int(text) of a text that is_int_literal
int(text) ==
    LET v == decimal(unsigned(text), Len(unsigned(text)))
    IN  IF text[1] = "-" THEN 0 - v ELSE v

\* str(k) of a number 0 <= k <= 9
str(k) == Digits[k + 1]

\* A list of length n accepts the indices -n .. n-1 and raises IndexError
\* on every other one
in_index_range(n, i) == (0 - n) <= i /\ i < n

\* The position that index i of a list of length n reads: a negative index
\* counts from the end
index(n, i) == IF i < 0 THEN n + i ELSE i

\* ------------------------------------------------------------------------
\* StartWindow
\* ------------------------------------------------------------------------
PleaseEnterIntegers == "Please enter valid integers!"

NMustBePositive == "N must be > 0!"

InvalidRangeForM == "Invalid range for M! (0 <= M < N*N)"

\* Variant: the upper test of M is m > n * n
on_start_game_m_up_to_n_squared(w) ==
    IF ~(is_int_literal(w.lineedit_n) /\ is_int_literal(w.lineedit_m))
    THEN [error_label |-> PleaseEnterIntegers, launch |-> FALSE, N |-> 0, M |-> 0]
    ELSE LET n == int(w.lineedit_n)
             m == int(w.lineedit_m)
         IN  IF n <= 0
             THEN [error_label |-> NMustBePositive, launch |-> FALSE, N |-> n, M |-> m]
             ELSE IF m < 0 \/ m > n * n
             THEN [error_label |-> InvalidRangeForM, launch |-> FALSE, N |-> n, M |-> m]
             ELSE [error_label |-> w.error_label, launch |-> TRUE, N |-> n, M |-> m]

\* on_start_game: the text it leaves in error_label and whether it goes on
\* to MinesweeperWindow(N, M); w holds lineedit_n, lineedit_m, error_label
on_start_game(w) ==
    IF ~(is_int_literal(w.lineedit_n) /\ is_int_literal(w.lineedit_m))
    THEN [error_label |-> PleaseEnterIntegers, launch |-> FALSE, N |-> 0, M |-> 0]
    ELSE LET n == int(w.lineedit_n)
             m == int(w.lineedit_m)
         IN  IF n <= 0
             THEN [error_label |-> NMustBePositive, launch |-> FALSE, N |-> n, M |-> m]
             ELSE IF m < 0 \/ m >= n * n
             THEN [error_label |-> InvalidRangeForM, launch |-> FALSE, N |-> n, M |-> m]
             ELSE [error_label |-> w.error_label, launch |-> TRUE, N |-> n, M |-> m]

\* ------------------------------------------------------------------------
\* Board generation
\* ------------------------------------------------------------------------
\* all_positions of _place_mines: every (r, c) of an n x n grid
all_positions(n) == range(0, n) \X range(0, n)

\* The cell dictionary created by __init__
blank_cell == [is_mine |-> FALSE, adjacent_mines |-> 0,
               is_revealed |-> FALSE, is_flagged |-> FALSE]

\* _place_mines: set is_mine on every sampled position
_place_mines(b, mine_positions) ==
    [p \in DOMAIN b |-> IF p \in mine_positions
                        THEN [b[p] EXCEPT !.is_mine = TRUE]
                        ELSE b[p]]

\* The values of nr (of nc) in "for nr in range(max(0, r - 1), min(N, r + 2))"
neighbour_range(n, r) == range(max(0, r - 1), min(n, r + 2))

\* The (nr, nc) pairs of the two nested loops around (r, c), in loop order;
\* a range whose end is not above its start is empty
neighbour_loop(n, r, c) ==
    LET lo_r == max(0, r - 1)
        hi_r == min(n, r + 2)
        lo_c == max(0, c - 1)
        hi_c == min(n, c + 2)
        h    == max(0, hi_r - lo_r)
        w    == max(0, hi_c - lo_c)
    IN  [i \in 1 .. (h * w) |->
            <<lo_r + ((i - 1) \div w), lo_c + ((i - 1) % w)>>]

\* Variant: the lower ends of the two ranges are not clipped at 0, so that
\* index -1 reads the last row or column
_calculate_adjacency_unclipped(n, b) ==
    LET wrap(i) == IF i < 0 THEN n + i ELSE i IN
    [p \in DOMAIN b |->
        IF b[p].is_mine
        THEN [b[p] EXCEPT !.adjacent_mines = -1]
        ELSE [b[p] EXCEPT !.adjacent_mines =
                Cardinality({q \in range(p[1] - 1, min(n, p[1] + 2))
                                     \X range(p[2] - 1, min(n, p[2] + 2)) :
                                b[<<wrap(q[1]), wrap(q[2])>>].is_mine})]]

\* _calculate_adjacency: -1 on mines, else the count over the clipped loops
_calculate_adjacency(n, b) ==
    [p \in DOMAIN b |->
        IF b[p].is_mine
        THEN [b[p] EXCEPT !.adjacent_mines = -1]
        ELSE [b[p] EXCEPT !.adjacent_mines =
                Cardinality({q \in neighbour_range(n, p[1]) \X neighbour_range(n, p[2]) :
                                b[q].is_mine})]]

\* ------------------------------------------------------------------------
\* The buttons
\* ------------------------------------------------------------------------
\* The text of the flag glyph (U+2691)
FlagText == "(flag)"

\* A CellButton as init_ui creates it
blank_button == [text |-> "", style |-> ""]

\* _get_color: colors.get(adjacent, "black")
_get_color(adjacent) ==
    CASE adjacent = 1 -> "blue"
      [] adjacent = 2 -> "green"
      [] adjacent = 3 -> "red"
      [] adjacent = 4 -> "purple"
      [] adjacent = 5 -> "maroon"
      [] adjacent = 6 -> "turquoise"
      [] adjacent = 7 -> "black"
      [] adjacent = 8 -> "gray"
      [] OTHER -> "black"

\* Variant: a cell that is neither flagged nor revealed shows its mine
_update_button_showing_mines(cell) ==
    IF cell.is_flagged
    THEN [text |-> FlagText, style |-> "color: red; background-color: white;"]
    ELSE IF cell.is_revealed \/ cell.is_mine
    THEN IF cell.is_mine
         THEN [text |-> "*", style |-> "color: white; background-color: red;"]
         ELSE [text |-> IF cell.adjacent_mines > 0 THEN str(cell.adjacent_mines) ELSE "",
               style |-> "color: " \o _get_color(cell.adjacent_mines)
                            \o "; background-color: lightgray;"]
    ELSE [text |-> "", style |-> ""]

\* _update_button: the text and the style sheet it sets on the button of a
\* cell
_update_button(cell) ==
    IF cell.is_flagged
    THEN [text |-> FlagText, style |-> "color: red; background-color: white;"]
    ELSE IF cell.is_revealed
    THEN IF cell.is_mine
         THEN [text |-> "*", style |-> "color: white; background-color: red;"]
         ELSE [text |-> IF cell.adjacent_mines > 0 THEN str(cell.adjacent_mines) ELSE "",
               style |-> "color: " \o _get_color(cell.adjacent_mines)
                            \o "; background-color: lightgray;"]
    ELSE [text |-> "", style |-> ""]

\* ------------------------------------------------------------------------
\* _flood_fill: explicit stack, pop from the end, neighbours in loop order.
\* st = [b |-> board, buttons |-> buttons, stack |-> stack,
\*       popped |-> the cells taken off the stack so far, in order]
\* ------------------------------------------------------------------------
RECURSIVE visit_neighbours_ignoring_flags(_, _, _)
\* Variant: the loop body does not test is_flagged
visit_neighbours_ignoring_flags(st, cells, i) ==
    IF i > Len(cells) THEN st
    ELSE LET q == cells[i]
             neighbor == st.b[q]
         IN  IF (~neighbor.is_revealed) /\ (~neighbor.is_mine)
             THEN visit_neighbours_ignoring_flags(
                    [st EXCEPT !.b[q].is_revealed = TRUE,
                               !.buttons[q] = _update_button(
                                                 [neighbor EXCEPT !.is_revealed = TRUE]),
                               !.stack = IF neighbor.adjacent_mines = 0
                                         THEN Append(st.stack, q)
                                         ELSE st.stack],
                    cells, i + 1)
             ELSE visit_neighbours_ignoring_flags(st, cells, i + 1)

RECURSIVE visit_neighbours_pushing_twice(_, _, _)
\* Variant: a zero-adjacency neighbour is put on the stack twice
visit_neighbours_pushing_twice(st, cells, i) ==
    IF i > Len(cells) THEN st
    ELSE LET q == cells[i]
             neighbor == st.b[q]
         IN  IF (~neighbor.is_revealed) /\ (~neighbor.is_flagged) /\ (~neighbor.is_mine)
             THEN visit_neighbours_pushing_twice(
                    [st EXCEPT !.b[q].is_revealed = TRUE,
                               !.buttons[q] = _update_button(
                                                 [neighbor EXCEPT !.is_revealed = TRUE]),
                               !.stack = IF neighbor.adjacent_mines = 0
                                         THEN Append(Append(st.stack, q), q)
                                         ELSE st.stack],
                    cells, i + 1)
             ELSE visit_neighbours_pushing_twice(st, cells, i + 1)

RECURSIVE visit_neighbours(_, _, _)
\* The two for-loops for one popped cell, from the i-th pair on
visit_neighbours(st, cells, i) ==
    IF i > Len(cells) THEN st
    ELSE LET q == cells[i]
             neighbor == st.b[q]
         IN  IF (~neighbor.is_revealed) /\ (~neighbor.is_flagged) /\ (~neighbor.is_mine)
             THEN visit_neighbours(
                    [st EXCEPT !.b[q].is_revealed = TRUE,
                               !.buttons[q] = _update_button(
                                                 [neighbor EXCEPT !.is_revealed = TRUE]),
                               !.stack = IF neighbor.adjacent_mines = 0
                                         THEN Append(st.stack, q)
                                         ELSE st.stack],
                    cells, i + 1)
             ELSE visit_neighbours(st, cells, i + 1)

RECURSIVE flood_loop_two_pops(_, _)
\* Variant: the loop gives up after two cells have been taken off the stack
flood_loop_two_pops(n, st) ==
    IF Len(st.stack) = 0 \/ Len(st.popped) >= 2 THEN st
    ELSE LET top  == st.stack[Len(st.stack)]
             rest == SubSeq(st.stack, 1, Len(st.stack) - 1)
         IN  flood_loop_two_pops(n, visit_neighbours([st EXCEPT !.stack = rest,
                                                                 !.popped = Append(st.popped, top)],
                                                     neighbour_loop(n, top[1], top[2]), 1))

RECURSIVE flood_loop(_, _)
\* while stack: r, c = stack.pop(); ...
flood_loop(n, st) ==
    IF Len(st.stack) = 0 THEN st
    ELSE LET top  == st.stack[Len(st.stack)]
             rest == SubSeq(st.stack, 1, Len(st.stack) - 1)
         IN  flood_loop(n, visit_neighbours([st EXCEPT !.stack = rest,
                                                        !.popped = Append(st.popped, top)],
                                            neighbour_loop(n, top[1], top[2]), 1))

\* Variant: the neighbours of the start cell only, nothing pushed back
_flood_fill_one_ring(n, b, u, row, col) ==
    [visit_neighbours([b |-> b, buttons |-> u, stack |-> <<>>, popped |-> <<<<row, col>>>>],
                      neighbour_loop(n, row, col), 1) EXCEPT !.stack = <<>>]

\* _flood_fill(row, col) on board b and buttons u: the state of the loop
\* when the stack is empty
_flood_fill(n, b, u, row, col) ==
    flood_loop(n, [b |-> b, buttons |-> u, stack |-> <<<<row, col>>>>, popped |-> <<>>])

\* The loop of _flood_fill with the work-list as a set and any entry taken
\* next: c = [b |-> board, work |-> work-list]; the entry w is taken off and
\* the two for-loops run around it
take_any(n, c, w) ==
    LET st == visit_neighbours([b |-> c.b,
                                buttons |-> [p \in DOMAIN c.b |-> blank_button],
                                stack |-> <<>>, popped |-> <<>>],
                               neighbour_loop(n, w[1], w[2]), 1)
    IN  [b |-> st.b,
         work |-> (c.work \ {w}) \cup {st.stack[i] : i \in 1 .. Len(st.stack)}]

RECURSIVE flood_orders(_, _, _)
\* Every board that the loop can leave from one of the configurations, the
\* boards in finals included
flood_orders(n, configs, finals) ==
    IF configs = {} THEN finals
    ELSE LET done == {c \in configs : c.work = {}}
         IN  flood_orders(n,
                          UNION {{take_any(n, c, w) : w \in c.work} : c \in configs \ done},
                          finals \cup {c.b : c \in done})

\* The boards that _flood_fill(row, col) can leave on board b when the
\* entries of its work-list are taken in any order
flood_any_order(n, b, row, col) ==
    flood_orders(n, {[b |-> b, work |-> {<<row, col>>}]}, {})

\* Variant: the test of is_mine is missing
_check_win_all_cells(b) == \A p \in DOMAIN b : b[p].is_revealed

\* _check_win: no non-mine cell is unrevealed
_check_win(b) == \A p \in DOMAIN b : ~((~b[p].is_mine) /\ (~b[p].is_revealed))

\* Variant: flagged mines are left as they are
_show_all_mines_unflagged(b) ==
    [p \in DOMAIN b |-> IF b[p].is_mine /\ ~b[p].is_flagged
                        THEN [b[p] EXCEPT !.is_revealed = TRUE]
                        ELSE b[p]]

\* Variant: every cell is marked revealed
_show_all_mines_and_cells(b) ==
    [p \in DOMAIN b |-> [b[p] EXCEPT !.is_revealed = TRUE]]

\* _show_all_mines: mark every mine revealed
_show_all_mines(b) ==
    [p \in DOMAIN b |-> IF b[p].is_mine
                        THEN [b[p] EXCEPT !.is_revealed = TRUE]
                        ELSE b[p]]

\* The buttons after _show_all_mines has left board b: _update_button on
\* every mine
_show_all_mines_buttons(b, u) ==
    [p \in DOMAIN u |-> IF b[p].is_mine THEN _update_button(b[p]) ELSE u[p]]

\* Texts of info_label
BeCareful == "Be careful!"

HitMine == "You hit a mine! Game Over!"

YouWon == "Congratulations, you won!"

\* ------------------------------------------------------------------------
\* The click handlers, from the fields of self to the fields they leave
\* ------------------------------------------------------------------------
\* The cell that self.board[row][col] reads
cell_position(s, row, col) == <<index(s.N, row), index(s.N, col)>>

\* self.board[row][col] raises IndexError
index_error(s, row, col) == ~(in_index_range(s.N, row) /\ in_index_range(s.N, col))

\* Variant: a zero-adjacency test is missing, every safe reveal floods
left_click_reveal_always_floods(s, row, col) ==
    LET p == cell_position(s, row, col)
        cell == s.board[p]
        b1 == [s.board EXCEPT ![p].is_revealed = TRUE]
        u1 == [s.buttons EXCEPT ![p] = _update_button(b1[p])]
    IN  IF cell.is_mine
        THEN [s EXCEPT !.info_label = HitMine,
                       !.game_over = TRUE,
                       !.board = _show_all_mines(b1),
                       !.buttons = _show_all_mines_buttons(_show_all_mines(b1), u1)]
        ELSE LET f == _flood_fill(s.N, b1, u1, row, col)
             IN  IF _check_win(f.b)
                 THEN [s EXCEPT !.board = f.b, !.buttons = f.buttons,
                                !.info_label = YouWon,
                                !.game_over = TRUE]
                 ELSE [s EXCEPT !.board = f.b, !.buttons = f.buttons]

\* Variant: the mine branch does not set game_over
left_click_reveal_game_goes_on(s, row, col) ==
    LET p == cell_position(s, row, col)
        cell == s.board[p]
        b1 == [s.board EXCEPT ![p].is_revealed = TRUE]
        u1 == [s.buttons EXCEPT ![p] = _update_button(b1[p])]
    IN  IF cell.is_mine
        THEN [s EXCEPT !.info_label = HitMine,
                       !.board = _show_all_mines(b1),
                       !.buttons = _show_all_mines_buttons(_show_all_mines(b1), u1)]
        ELSE LET f == IF cell.adjacent_mines = 0
                      THEN _flood_fill(s.N, b1, u1, row, col)
                      ELSE [b |-> b1, buttons |-> u1]
             IN  IF _check_win(f.b)
                 THEN [s EXCEPT !.board = f.b, !.buttons = f.buttons,
                                !.info_label = YouWon,
                                !.game_over = TRUE]
                 ELSE [s EXCEPT !.board = f.b, !.buttons = f.buttons]

\* The part of left_click after its two early returns
left_click_reveal(s, row, col) ==
    LET p == cell_position(s, row, col)
        cell == s.board[p]
        b1 == [s.board EXCEPT ![p].is_revealed = TRUE]
        u1 == [s.buttons EXCEPT ![p] = _update_button(b1[p])]
    IN  IF cell.is_mine
        THEN [s EXCEPT !.info_label = HitMine,
                       !.game_over = TRUE,
                       !.board = _show_all_mines(b1),
                       !.buttons = _show_all_mines_buttons(_show_all_mines(b1), u1)]
        ELSE LET f == IF cell.adjacent_mines = 0
                      THEN _flood_fill(s.N, b1, u1, row, col)
                      ELSE [b |-> b1, buttons |-> u1]
             IN  IF _check_win(f.b)
                 THEN [s EXCEPT !.board = f.b, !.buttons = f.buttons,
                                !.info_label = YouWon,
                                !.game_over = TRUE]
                 ELSE [s EXCEPT !.board = f.b, !.buttons = f.buttons]

\* Variant: no test of is_flagged before the reveal
left_click_through_flag(s, row, col) ==
    IF s.game_over THEN s
    ELSE IF index_error(s, row, col) THEN [s EXCEPT !.pc = "IndexError"]
    ELSE IF s.board[cell_position(s, row, col)].is_revealed THEN s
    ELSE left_click_reveal(s, row, col)

\* Variant: no test of game_over before the reveal
left_click_after_game_over(s, row, col) ==
    IF index_error(s, row, col) THEN [s EXCEPT !.pc = "IndexError"]
    ELSE LET cell == s.board[cell_position(s, row, col)] IN
         IF cell.is_flagged \/ cell.is_revealed THEN s
         ELSE left_click_reveal(s, row, col)

\* left_click(self, row, col)
left_click(s, row, col) ==
    IF s.game_over THEN s
    ELSE IF index_error(s, row, col) THEN [s EXCEPT !.pc = "IndexError"]
    ELSE LET cell == s.board[cell_position(s, row, col)] IN
         IF cell.is_flagged \/ cell.is_revealed THEN s
         ELSE left_click_reveal(s, row, col)

\* The part of right_click after its two early returns
right_click_toggle(s, row, col) ==
    LET p == cell_position(s, row, col)
        b1 == [s.board EXCEPT ![p].is_flagged = ~s.board[p].is_flagged]
    IN  [s EXCEPT !.board = b1,
                  !.buttons[p] = _update_button(b1[p])]

\* Variant: no test of game_over before the toggle
right_click_after_game_over(s, row, col) ==
    IF index_error(s, row, col) THEN [s EXCEPT !.pc = "IndexError"]
    ELSE IF s.board[cell_position(s, row, col)].is_revealed THEN s
    ELSE right_click_toggle(s, row, col)

\* Variant: no test of is_revealed before the toggle
right_click_on_revealed(s, row, col) ==
    IF s.game_over THEN s
    ELSE IF index_error(s, row, col) THEN [s EXCEPT !.pc = "IndexError"]
    ELSE right_click_toggle(s, row, col)

\* right_click(self, row, col)
right_click(s, row, col) ==
    IF s.game_over THEN s
    ELSE IF index_error(s, row, col) THEN [s EXCEPT !.pc = "IndexError"]
    ELSE IF s.board[cell_position(s, row, col)].is_revealed THEN s
    ELSE right_click_toggle(s, row, col)

\* ------------------------------------------------------------------------
\* State and actions
\* ------------------------------------------------------------------------
\* The fields of the MinesweeperWindow object, and pc: where the program
\* stands, or the exception that has ended it
self == [N |-> N, M |-> M, board |-> board, buttons |-> buttons,
         game_over |-> game_over, info_label |-> info_label, pc |-> pc]

\* The fields after a handler has run
Becomes(t) ==
    /\ N' = t.N
    /\ M' = t.M
    /\ board' = t.board
    /\ buttons' = t.buttons
    /\ game_over' = t.game_over
    /\ info_label' = t.info_label
    /\ pc' = t.pc

\* The coordinates of the N x N CellButtons
Cells == all_positions(N)

Flagged == {p \in Cells : board[p].is_flagged}

Revealed == {p \in Cells : board[p].is_revealed}

Mines == {p \in Cells : board[p].is_mine}

\* MinesweeperWindow.__init__(n, m) up to the call of _place_mines:
\* N, M, game_over and the board of blank cells
MinesweeperWindow(n, m) ==
    [N |-> n, M |-> m,
     board |-> [p \in all_positions(n) |-> blank_cell],
     buttons |-> <<>>,
     game_over |-> FALSE,
     info_label |-> BeCareful,
     pc |-> "_place_mines"]

\* No MinesweeperWindow exists: the StartWindow is showing
no_window ==
    [N |-> 0, M |-> 0, board |-> <<>>, buttons |-> <<>>,
     game_over |-> FALSE, info_label |-> "", pc |-> "StartWindow"]

\* The decimal text of a number of the explorations
text_of(k) ==
    IF k < 0 THEN <<"-">> \o <<str(0 - k)>>
    ELSE IF k < 10 THEN <<str(k)>>
    ELSE <<str(k \div 10), str(k % 10)>>

\* The StartWindow once on_start_game has let n and m through
closed_start_window(n, m) ==
    [lineedit_n |-> text_of(n), lineedit_m |-> text_of(m), error_label |-> ""]

\* A MinesweeperWindow(n, m) under construction
Construct(n, m) ==
    /\ N = n
    /\ M = m
    /\ game_over = FALSE
    /\ board = [p \in all_positions(n) |-> blank_cell]
    /\ buttons = <<>>
    /\ info_label = BeCareful
    /\ pc = "_place_mines"
    /\ start_window = closed_start_window(n, m)
    /\ toggled = FALSE
    /\ other = no_window

\* A game of the play exploration: N and M as on_start_game lets them through
Init == \E n \in GridSizes : \E m \in 0 .. min(MaxM, n * n - 1) : Construct(n, m)

\* A game of the generation exploration: every valid M of every side
InitGen == \E n \in GenSizes : \E m \in 0 .. (n * n - 1) : Construct(n, m)

\* self._place_mines()
PlaceMines ==
    /\ pc = "_place_mines"
    /\ \E mine_positions \in random_sample(all_positions(N), M) :
          board' = _place_mines(board, mine_positions)
    /\ pc' = "_calculate_adjacency"
    /\ UNCHANGED <<N, M, buttons, game_over, info_label, start_window, toggled, other>>

\* self._calculate_adjacency(); init_ui then creates the blank buttons
CalculateAdjacency ==
    /\ pc = "_calculate_adjacency"
    /\ board' = _calculate_adjacency(N, board)
    /\ buttons' = [p \in all_positions(N) |-> blank_button]
    /\ pc' = "ready"
    /\ UNCHANGED <<N, M, game_over, info_label, start_window, toggled, other>>

\* A left click on one of the CellButtons
LeftClick ==
    /\ pc = "ready"
    /\ \E p \in Cells : Becomes(left_click(self, p[1], p[2]))
    /\ UNCHANGED <<start_window, toggled, other>>

\* A right click on one of the CellButtons; the exploration lets at most
\* MaxFlags flags stand at a time.  toggled records that right_click has
\* been called in this game.
RightClick ==
    /\ pc = "ready"
    /\ \E p \in Cells :
        /\ IF board[p].is_flagged \/ board[p].is_revealed \/ game_over
           THEN TRUE
           ELSE Cardinality(Flagged) < MaxFlags
        /\ Becomes(right_click(self, p[1], p[2]))
    /\ toggled' = TRUE
    /\ UNCHANGED <<start_window, other>>

Next == PlaceMines \/ CalculateAdjacency \/ LeftClick \/ RightClick

Spec == Init /\ [][Next]_vars

NextGen == PlaceMines \/ CalculateAdjacency

SpecGen == InitGen /\ [][NextGen]_vars

\* The texts typed into lineedit_n and lineedit_m before a click on
\* "Start Game": numbers around the valid ranges of the small boards, signed
\* and zero-led ones, texts that are no numbers, and the pair 5, 25
NTexts == {text_of(k) : k \in -1 .. 3} \cup {<<"+", "2">>, <<"0", "3">>, <<"a">>, <<>>}

MTexts == {text_of(k) : k \in -1 .. 10} \cup {<<"+", "1">>, <<"2", "a">>, <<"-">>}

StartInputs ==
    (NTexts \X MTexts) \cup {<<text_of(5), text_of(25)>>, <<text_of(5), text_of(-1)>>,
                              <<text_of(-2), text_of(4)>>}

\* main(): the StartWindow showing its default texts, no game yet
InitStart ==
    /\ N = no_window.N
    /\ M = no_window.M
    /\ board = no_window.board
    /\ buttons = no_window.buttons
    /\ game_over = no_window.game_over
    /\ info_label = no_window.info_label
    /\ pc = no_window.pc
    /\ start_window = [lineedit_n |-> <<"1", "0">>, lineedit_m |-> <<"1", "5">>,
                       error_label |-> ""]
    /\ toggled = FALSE
    /\ other = no_window

\* The user types two texts and clicks "Start Game": on_start_game either
\* sets error_label and returns, or constructs MinesweeperWindow(N, M)
OnStartGame ==
    /\ pc = "StartWindow"
    /\ \E input \in StartInputs :
          LET w == [start_window EXCEPT !.lineedit_n = input[1], !.lineedit_m = input[2]]
              r == on_start_game(w)
          IN  /\ start_window' = [w EXCEPT !.error_label = r.error_label]
              /\ IF r.launch
                 THEN Becomes(MinesweeperWindow(r.N, r.M))
                 ELSE UNCHANGED <<N, M, board, buttons, game_over, info_label, pc>>
    /\ UNCHANGED <<toggled, other>>

NextStart == OnStartGame \/ PlaceMines \/ CalculateAdjacency

SpecStart == InitStart /\ [][NextStart]_vars

\* The N and M handed to MinesweeperWindow(N, M) by a caller that has not
\* validated them
DirectSizes == -1 .. 3

DirectMines(n) == -1 .. (n * n + 1)

\* A MinesweeperWindow(n, m) constructed directly
InitDirect == \E n \in DirectSizes : \E m \in DirectMines(n) : Construct(n, m)

\* self._place_mines() when random.sample raises: the ValueError leaves
\* __init__ and no window is constructed
PlaceMinesRaises ==
    /\ pc = "_place_mines"
    /\ sample_raises(all_positions(N), M)
    /\ pc' = "ValueError"
    /\ UNCHANGED <<N, M, board, buttons, game_over, info_label, start_window, toggled, other>>

NextDirect == PlaceMines \/ PlaceMinesRaises \/ CalculateAdjacency

SpecDirect == InitDirect /\ [][NextDirect]_vars

\* Numbers of mines of the two games played side by side: every valid M on
\* the boards of side 1 and 2, at most one mine on the boards of side 3
PairMines(n) == IF n < 3 THEN 0 .. (n * n - 1) ELSE 0 .. 1

\* The window that __init__ leaves for board side n and sampled positions
\* mine_positions: mines placed, adjacency counted, blank buttons created
ready_window(n, m, mine_positions) ==
    [MinesweeperWindow(n, m) EXCEPT
        !.board = _calculate_adjacency(
                     n, _place_mines([p \in all_positions(n) |-> blank_cell], mine_positions)),
        !.buttons = [p \in all_positions(n) |-> blank_button],
        !.pc = "ready"]

\* Two games of the same side, each with its own mines, both constructed
InitPair ==
    \E n \in GridSizes :
      \E m1 \in PairMines(n) :
        \E m2 \in PairMines(n) :
          \E sample1 \in random_sample(all_positions(n), m1) :
            \E sample2 \in random_sample(all_positions(n), m2) :
              LET w == ready_window(n, m1, sample1) IN
              /\ N = w.N
              /\ M = w.M
              /\ board = w.board
              /\ buttons = w.buttons
              /\ game_over = w.game_over
              /\ info_label = w.info_label
              /\ pc = w.pc
              /\ start_window = closed_start_window(n, m1)
              /\ toggled = FALSE
              /\ other = ready_window(n, m2, sample2)

\* Games s and o are both in progress and agree on adjacent_mines (so on
\* is_mine) of every cell that is revealed in one of them
AgreeOnRevealed(s, o) ==
    /\ ~s.game_over
    /\ ~o.game_over
    /\ \A p \in DOMAIN s.board :
          (s.board[p].is_revealed \/ o.board[p].is_revealed) =>
              s.board[p].adjacent_mines = o.board[p].adjacent_mines

\* The same left click in both games, for as long as the two games are in
\* progress and agree on what they have revealed
PairLeftClick ==
    /\ pc = "ready"
    /\ AgreeOnRevealed(self, other)
    /\ \E p \in Cells :
          /\ Becomes(left_click(self, p[1], p[2]))
          /\ other' = left_click(other, p[1], p[2])
    /\ UNCHANGED <<start_window, toggled>>

\* The same right click in both games, at most MaxFlags flags standing
PairRightClick ==
    /\ pc = "ready"
    /\ AgreeOnRevealed(self, other)
    /\ \E p \in Cells :
          /\ IF board[p].is_flagged \/ board[p].is_revealed \/ game_over
             THEN TRUE
             ELSE Cardinality(Flagged) < MaxFlags
          /\ Becomes(right_click(self, p[1], p[2]))
          /\ other' = right_click(other, p[1], p[2])
    /\ toggled' = TRUE
    /\ UNCHANGED start_window

NextPair == PairLeftClick \/ PairRightClick

SpecPair == InitPair /\ [][NextPair]_vars

\* The row and column values handed to left_click and right_click by a
\* caller that is no CellButton: the indices of the grid, the negative
\* indices that a list accepts, and one value beyond each end
Coordinates == (0 - N - 1) .. N

\* left_click(row, col) called with any coordinates
CallLeftClick ==
    /\ pc = "ready"
    /\ \E row \in Coordinates : \E col \in Coordinates :
          Becomes(left_click(self, row, col))
    /\ UNCHANGED <<start_window, toggled, other>>

\* right_click(row, col) called with any coordinates, at most MaxFlags flags
\* standing
CallRightClick ==
    /\ pc = "ready"
    /\ \E row \in Coordinates : \E col \in Coordinates :
          /\ IF game_over \/ index_error(self, row, col)
             THEN TRUE
             ELSE IF \/ board[cell_position(self, row, col)].is_flagged
                     \/ board[cell_position(self, row, col)].is_revealed
                  THEN TRUE
                  ELSE Cardinality(Flagged) < MaxFlags
          /\ Becomes(right_click(self, row, col))
    /\ toggled' = TRUE
    /\ UNCHANGED <<start_window, other>>

NextCalls == PlaceMines \/ CalculateAdjacency \/ CallLeftClick \/ CallRightClick

\* Numbers of mines of the games explored with any coordinates
CallMines == 0 .. 1

InitCalls == \E n \in GridSizes : \E m \in CallMines \cap (0 .. (n * n - 1)) : Construct(n, m)

SpecCalls == InitCalls /\ [][NextCalls]_vars

\* Status of the game: game_over and the text of info_label are set together
Outcome(s) ==
    IF ~s.game_over THEN "InProgress"
    ELSE IF s.info_label = HitMine THEN "Lost"
    ELSE IF s.info_label = YouWon THEN "Won"
    ELSE "None"

\* ------------------------------------------------------------------------
\* Properties
\* ------------------------------------------------------------------------
Abs(x) == IF x < 0 THEN -x ELSE x

\* Cells p and q share an edge or a corner
Adjacent(p, q) == q # p /\ Abs(q[1] - p[1]) <= 1 /\ Abs(q[2] - p[2]) <= 1

\* The cells of the grid sharing an edge or a corner with p
Neighbours(p) == {q \in Cells : Adjacent(p, q)}

\* The two commands of the engine on cell p, as the state they leave
reveal(p) == left_click(self, p[1], p[2])

toggle_flag(p) == right_click(self, p[1], p[2])

Playing == pc = "ready"

\* C1 - Terminal immutability: in every state where game_over is true, a
\* reveal or a toggle_flag of any in-range cell leaves every field of every
\* cell, and game_over, as they are.
TerminalImmutability ==
    (Playing /\ game_over) =>
        \A p \in Cells :
            LET l == reveal(p)
                r == toggle_flag(p)
            IN  /\ l.board = board
                /\ l.game_over = TRUE
                /\ r.board = board
                /\ r.game_over = TRUE

\* A lost game in which a click could still find an unrevealed, unflagged
\* cell and a flagged one
TerminalImmutabilityWitness ==
    /\ Playing
    /\ Outcome(self) = "Lost"
    /\ \E p \in Cells : ~board[p].is_revealed /\ ~board[p].is_flagged
    /\ \E p \in Cells : board[p].is_flagged

\* C2 as stated - no cell is ever flagged and revealed at the same time
FlagRevealExclusion ==
    \A p \in Cells : ~(board[p].is_flagged /\ board[p].is_revealed)

\* C2 amended - no cell is flagged and revealed at once while the game is in
\* progress or won; after a loss the flagged cells that are revealed are
\* exactly the flagged mines; no command flags a revealed cell; and the one
\* command that marks a flagged cell revealed is the losing reveal, on mines.
FlagRevealExclusionUntilLoss ==
    /\ [](Playing =>
            /\ Outcome(self) # "Lost" => FlagRevealExclusion
            /\ Outcome(self) = "Lost" =>
                  \A p \in Flagged : board[p].is_revealed <=> board[p].is_mine)
    /\ [][\A q \in Cells :
            /\ board[q].is_revealed => board'[q].is_flagged = board[q].is_flagged
            /\ (board[q].is_flagged /\ ~board[q].is_revealed /\ board'[q].is_revealed)
                  => (board[q].is_mine /\ ~game_over /\ game_over'
                         /\ info_label' = HitMine)]_vars

\* A lost game with a flagged mine, which the losing reveal marked revealed
FlagRevealExclusionWitness ==
    /\ Playing
    /\ Outcome(self) = "Lost"
    /\ \E p \in Cells : board[p].is_mine /\ board[p].is_flagged /\ board[p].is_revealed

\* C3 - Loss: a reveal of an unflagged, unrevealed mine in a game in progress
\* leaves game_over true, the outcome Lost and every mine revealed, flagged
\* or not; so every lost game shows all its mines.
LossRevealsAllMines ==
    Playing =>
        /\ ~game_over =>
              \A p \in Cells :
                 (board[p].is_mine /\ ~board[p].is_flagged /\ ~board[p].is_revealed) =>
                    LET t == reveal(p) IN
                    /\ t.game_over
                    /\ Outcome(t) = "Lost"
                    /\ \A q \in Cells : board[q].is_mine => t.board[q].is_revealed
        /\ Outcome(self) = "Lost" => \A q \in Cells : board[q].is_mine => board[q].is_revealed

\* A lost game on a board of two mines, one of them flagged
LossWitness ==
    /\ Playing
    /\ Outcome(self) = "Lost"
    /\ Cardinality(Mines) = 2
    /\ \E p \in Mines : board[p].is_flagged
    /\ \E p \in Mines : ~board[p].is_flagged
    /\ \A p \in Mines : board[p].is_revealed

\* C4 - Win detection: in every reachable state, the one a reveal leaves
\* included, the outcome is Won exactly when every non-mine cell is revealed,
\* so the reveal that uncovers the last one declares the win; and on
\* the 3 x 3 board with its only mine at (2,2) reveal(0,0) uncovers the eight
\* other cells and wins with the mine neither flagged nor revealed.
WinDetection ==
    Playing =>
        /\ Outcome(self) = "Won" <=> (\A p \in Cells : board[p].is_mine \/ board[p].is_revealed)
        /\ (N = 3 /\ Mines = {<<2, 2>>} /\ Revealed = {} /\ Flagged = {}) =>
              LET t == reveal(<<0, 0>>) IN
              /\ Outcome(t) = "Won"
              /\ {q \in Cells : t.board[q].is_revealed} = Cells \ {<<2, 2>>}
              /\ ~t.board[<<2, 2>>].is_flagged

\* The won game of the scenario: the mine at (2,2) neither flagged nor revealed
WinWitness ==
    /\ Playing
    /\ N = 3
    /\ Mines = {<<2, 2>>}
    /\ Outcome(self) = "Won"
    /\ Revealed = Cells \ {<<2, 2>>}
    /\ Flagged = {}

RECURSIVE ZeroClosure(_)
\* The least set of zero-adjacency cells holding S and every zero-adjacency
\* neighbour of its members
ZeroClosure(S) ==
    LET more == {q \in Cells \ S : board[q].adjacent_mines = 0
                                   /\ \E z \in S : Adjacent(z, q)}
    IN  IF more = {} THEN S ELSE ZeroClosure(S \cup more)

\* The maximal 8-connected region of zero-adjacency cells that holds p
ZeroRegion(p) == ZeroClosure({p})

\* The cells that are not in region R and touch it
Border(R) == {q \in Cells \ R : \E z \in R : Adjacent(z, q)}

\* A reveal of p that starts a flood fill
FloodStart(p) ==
    /\ ~game_over
    /\ ~board[p].is_revealed
    /\ ~board[p].is_flagged
    /\ board[p].adjacent_mines = 0

\* The cells that a command leaving state t has newly marked revealed
NewlyRevealed(t) == {q \in Cells : t.board[q].is_revealed /\ ~board[q].is_revealed}

\* C5 as stated - whatever flags stand, a reveal of an unrevealed, unflagged
\* zero-adjacency cell leaves its whole zero region and the region's border
\* revealed, and reveals no mine and no flagged cell
FloodFillCompleteness ==
    Playing =>
        \A p \in Cells : FloodStart(p) =>
            /\ \A q \in ZeroRegion(p) \cup Border(ZeroRegion(p)) :
                  reveal(p).board[q].is_revealed
            /\ \A q \in NewlyRevealed(reveal(p)) :
                  ~board[q].is_mine /\ ~board[q].is_flagged

\* C5 amended - when no cell of the zero region is revealed yet and no cell
\* of the region or of its border is flagged, the reveal leaves the whole
\* region and its border revealed; in every case the cells it newly reveals
\* are neither mines nor flagged, and lie in the region or on its border.
FloodFillCompletenessUnflagged ==
    [](Playing =>
          \A p \in Cells : FloodStart(p) =>
              LET R == ZeroRegion(p)
                  t == reveal(p)
              IN  /\ (R \cap Revealed = {} /\ (R \cup Border(R)) \cap Flagged = {}) =>
                        \A q \in R \cup Border(R) : t.board[q].is_revealed
                  /\ \A q \in NewlyRevealed(t) :
                        /\ ~board[q].is_mine
                        /\ ~board[q].is_flagged
                        /\ q \in R \cup Border(R)
                  /\ \A q \in Cells : t.board[q].is_flagged = board[q].is_flagged)

\* A game in progress after a flood fill: a revealed zero region of several
\* cells whose numbered border is revealed too, next to an unrevealed mine
FloodFillWitness ==
    /\ Playing
    /\ ~game_over
    /\ \E p \in Revealed :
          /\ board[p].adjacent_mines = 0
          /\ Cardinality(ZeroRegion(p)) >= 3
          /\ \E q \in Border(ZeroRegion(p)) : board[q].adjacent_mines >= 1
          /\ ZeroRegion(p) \cup Border(ZeroRegion(p)) \subseteq Revealed
    /\ \E p \in Mines : ~board[p].is_revealed

\* C6 - Reveal no-ops: reveal changes no field at all when the game is over,
\* or the target is flagged (a mine or not), or the target is revealed; so a
\* second reveal of the same cell leaves the state the first one left.
RevealNoOps ==
    [](Playing =>
          \A p \in Cells :
              LET t == reveal(p) IN
              IF game_over \/ board[p].is_flagged \/ board[p].is_revealed
              THEN t = self
              ELSE left_click(t, p[1], p[2]) = t)

\* A game in progress with a flagged mine and a revealed cell to click again
RevealNoOpsWitness ==
    /\ Playing
    /\ ~game_over
    /\ \E p \in Mines : board[p].is_flagged
    /\ Revealed # {}

\* C7 - toggle_flag effect and frame: in a game in progress, on a cell that
\* is not revealed, toggle_flag flips is_flagged of that cell and leaves all
\* else as it is; in a finished game or on a revealed cell it changes nothing.
ToggleFlagFrame ==
    [](Playing =>
          \A p \in Cells :
              LET t == toggle_flag(p) IN
              IF ~game_over /\ ~board[p].is_revealed
              THEN /\ \A q \in Cells :
                         t.board[q] = IF q = p
                                      THEN [board[q] EXCEPT !.is_flagged = ~board[q].is_flagged]
                                      ELSE board[q]
                   /\ DOMAIN t.board = Cells
                   /\ t.game_over = game_over
              ELSE t = self)

\* A game in progress with a flag on a cell that is no mine, beside
\* revealed cells
ToggleFlagWitness ==
    /\ Playing
    /\ ~game_over
    /\ \E p \in Cells \ Mines : board[p].is_flagged
    /\ Revealed # {}

\* C8 - Game state machine: the status only ever moves from InProgress to
\* Won or from InProgress to Lost; once Won or Lost it stays what it is.
StatusMachine ==
    [][/\ Outcome(self) \in {"InProgress", "Won", "Lost"}
       /\ Outcome(self)' \in {"InProgress", "Won", "Lost"}
       /\ Outcome(self) # "InProgress" => Outcome(self)' = Outcome(self)]_vars

\* A won game with an unflagged, unrevealed mine left to click
StatusMachineWitness ==
    /\ Playing
    /\ Outcome(self) = "Won"
    /\ \E p \in Mines : ~board[p].is_flagged /\ ~board[p].is_revealed
    /\ \E p \in Mines : board[p].is_flagged

\* C9 - Mine count invariant: for valid N and M the generated board has
\* exactly M mine cells, and no reveal or toggle_flag changes which cells
\* are mines.
MineCount ==
    /\ [](Playing =>
            /\ N > 0 /\ 0 <= M /\ M < N * N
            /\ DOMAIN board = Cells
            /\ Cardinality({p \in Cells : board[p].is_mine}) = M)
    /\ [][Playing => \A p \in Cells : board'[p].is_mine = board[p].is_mine]_vars

\* A 3 x 3 board of two mines after reveals and with a flag standing
MineCountWitness ==
    /\ Playing
    /\ N = 3
    /\ M = 2
    /\ Cardinality(Mines) = 2
    /\ Cardinality(Revealed) >= 2
    /\ Flagged # {}

\* C10 - Adjacency correctness: after the adjacency pass every non-mine cell
\* holds the number of mines among its in-grid neighbours (at most 3 of them
\* at a corner, 5 on an edge), and every mine holds -1.
AdjacencyCorrect ==
    Playing =>
        \A p \in Cells :
            /\ Cardinality(Neighbours(p)) <=
                  (IF p[1] \in {0, N - 1} /\ p[2] \in {0, N - 1} THEN 3
                   ELSE IF p[1] \in {0, N - 1} \/ p[2] \in {0, N - 1} THEN 5
                   ELSE 8)
            /\ board[p].adjacent_mines =
                  (IF board[p].is_mine THEN -1
                   ELSE Cardinality({q \in Neighbours(p) : board[q].is_mine}))

\* A generated 4 x 4 board with a cell ringed by eight mines and a corner
\* cell ringed by three
AdjacencyWitness ==
    /\ Playing
    /\ N = 4
    /\ \E p \in Cells : board[p].adjacent_mines = 8
    /\ board[<<3, 3>>].adjacent_mines = 3

\* The precondition of new_game
ValidParameters(n, m) == n > 0 /\ 0 <= m /\ m < n * n

\* The integer pairs tried against on_start_game
TriedN == -2 .. 5

TriedM == -2 .. 26

\* C11 - Parameter validation: on_start_game goes on to build a game exactly
\* for the integer pairs with N > 0 and 0 <= M < N*N; for every other pair
\* (5, 25 among them) it leaves an error text and builds nothing; so a game
\* exists only for valid N and M, and after a rejection there is no game
\* state and no board generation has begun.
ParameterValidation ==
    /\ pc = "StartWindow" => \A n \in TriedN : \A m \in TriedM :
          LET r == on_start_game([lineedit_n |-> text_of(n), lineedit_m |-> text_of(m),
                                  error_label |-> ""])
          IN  /\ r.launch <=> ValidParameters(n, m)
              /\ r.launch => r.N = n /\ r.M = m /\ r.error_label = ""
              /\ ~r.launch => r.error_label \in {NMustBePositive, InvalidRangeForM}
    /\ pc = "StartWindow" => self = no_window
    /\ pc # "StartWindow" =>
          /\ ValidParameters(N, M)
          /\ is_int_literal(start_window.lineedit_n)
          /\ is_int_literal(start_window.lineedit_m)
          /\ int(start_window.lineedit_n) = N
          /\ int(start_window.lineedit_m) = M
          /\ DOMAIN board = all_positions(N)
    /\ (start_window.error_label # "" /\ pc = "StartWindow") =>
          ~(/\ is_int_literal(start_window.lineedit_n)
            /\ is_int_literal(start_window.lineedit_m)
            /\ ValidParameters(int(start_window.lineedit_n), int(start_window.lineedit_m)))

\* N = 5 and M = 25 have been typed and rejected: the StartWindow shows the
\* range error and no game exists
ParameterValidationWitness ==
    /\ pc = "StartWindow"
    /\ start_window.lineedit_n = <<"5">>
    /\ start_window.lineedit_m = <<"2", "5">>
    /\ start_window.error_label = InvalidRangeForM
    /\ self = no_window

\* C12 - Generator defensive check: a construction with parameters that
\* violate N > 0 and 0 <= M < N*N never gets past the placing of the mines:
\* it ends in an error and produces no board.
DefensiveCheck ==
    ~ValidParameters(N, M) => pc \in {"_place_mines", "ValueError"}

\* What a button shows when it reflects nothing of its cell but is_flagged
ShownUnrevealed(is_flagged) ==
    IF is_flagged
    THEN [text |-> FlagText, style |-> "color: red; background-color: white;"]
    ELSE blank_button

\* C13 - Information hiding: while a game is not over the button of every
\* unrevealed cell shows the flag when the cell is flagged and nothing when
\* it is not, whatever its is_mine and adjacent_mines; and two games that
\* received the same clicks, are both in progress and agree on the
\* adjacent_mines of the revealed cells show identical boards (and have the
\* same cells revealed and flagged), wherever their unrevealed mines lie.
InformationHiding ==
    [](Playing =>
          /\ ~game_over =>
                \A p \in Cells :
                    ~board[p].is_revealed =>
                        buttons[p] = ShownUnrevealed(board[p].is_flagged)
          /\ ~other.game_over =>
                \A p \in Cells :
                    ~other.board[p].is_revealed =>
                        other.buttons[p] = ShownUnrevealed(other.board[p].is_flagged)
          /\ AgreeOnRevealed(self, other) =>
                /\ buttons = other.buttons
                /\ \A p \in Cells :
                      /\ board[p].is_revealed = other.board[p].is_revealed
                      /\ board[p].is_flagged = other.board[p].is_flagged)

\* Two 3 x 3 games in progress after the same clicks whose mines lie on
\* different cells: numbered cells are revealed, one mine of the first game
\* is flagged where the second game has none, and the mine of the second game
\* is blank in both
InformationHidingWitness ==
    /\ Playing
    /\ N = 3
    /\ AgreeOnRevealed(self, other)
    /\ Mines # {p \in Cells : other.board[p].is_mine}
    /\ Cardinality(Revealed) >= 2
    /\ \E p \in Mines : board[p].is_flagged /\ ~other.board[p].is_mine
    /\ \E p \in Cells : other.board[p].is_mine /\ buttons[p] = blank_button

RECURSIVE RevealClosure(_)
\* The least set that holds S and every in-grid neighbour of a
\* zero-adjacency member that is not revealed, not flagged and not a mine
RevealClosure(S) ==
    LET more == {q \in Cells \ S :
                    /\ ~board[q].is_revealed
                    /\ ~board[q].is_flagged
                    /\ ~board[q].is_mine
                    /\ \E z \in S : board[z].adjacent_mines = 0 /\ Adjacent(z, q)}
    IN  IF more = {} THEN S ELSE RevealClosure(S \cup more)

\* C14 - Flood fill order independence: for every reveal that starts a flood
\* fill, taking the work-list entries in any order leaves one and the same
\* board, the one the stack order of the code leaves, and the cells newly
\* revealed by the call are the least set that holds the start cell and is
\* closed under "an in-grid neighbour of a zero-adjacency member that is not
\* revealed, not flagged and not a mine is a member".
FloodFillOrderIndependence ==
    [](Playing =>
          \A p \in Cells : FloodStart(p) =>
              LET b1 == [board EXCEPT ![p].is_revealed = TRUE]
                  t == reveal(p)
              IN  /\ flood_any_order(N, b1, p[1], p[2]) = {t.board}
                  /\ NewlyRevealed(t) = RevealClosure({p}))

\* A game in progress in which a flood fill went around a flag: a revealed
\* zero-adjacency cell beside a flagged cell that is no mine, and a revealed
\* zero region of four cells or more
FloodFillOrderWitness ==
    /\ Playing
    /\ ~game_over
    /\ \E p \in Revealed :
          /\ board[p].adjacent_mines = 0
          /\ Cardinality(ZeroRegion(p) \cap Revealed) >= 4
          /\ \E q \in Neighbours(p) : board[q].is_flagged /\ ~board[q].is_mine

\* C15 - Reveal of a numbered cell: in a game in progress a reveal of an
\* unrevealed, unflagged cell that is no mine and has adjacent_mines >= 1
\* marks that one cell revealed and changes no other field of any cell; the
\* game goes on unless the cell was the last unrevealed non-mine cell, in
\* which case it is won; on the fresh 3 x 3 board with its mine at (1,1),
\* reveal(0,0) leaves (0,0) alone revealed and the game in progress.
NumberedReveal ==
    [](Playing /\ ~game_over =>
          /\ \A p \in Cells :
                (/\ ~board[p].is_revealed
                 /\ ~board[p].is_flagged
                 /\ ~board[p].is_mine
                 /\ board[p].adjacent_mines >= 1) =>
                    LET t == reveal(p) IN
                    /\ t.board = [board EXCEPT ![p].is_revealed = TRUE]
                    /\ Outcome(t) = (IF \E q \in Cells \ {p} :
                                          ~board[q].is_mine /\ ~board[q].is_revealed
                                     THEN "InProgress" ELSE "Won")
          /\ (N = 3 /\ Mines = {<<1, 1>>} /\ Revealed = {} /\ Flagged = {}) =>
                LET t == reveal(<<0, 0>>) IN
                /\ {q \in Cells : t.board[q].is_revealed} = {<<0, 0>>}
                /\ t.board[<<0, 0>>].adjacent_mines = 1
                /\ Outcome(t) = "InProgress")

\* The game of the scenario after reveal(0,0): mine at (1,1), (0,0) alone
\* revealed, still in progress
NumberedRevealWitness ==
    /\ Playing
    /\ N = 3
    /\ Mines = {<<1, 1>>}
    /\ Revealed = {<<0, 0>>}
    /\ Flagged = {}
    /\ buttons[<<0, 0>>].text = "1"
    /\ Outcome(self) = "InProgress"

\* C16 - Flood fill termination: for every reveal that starts a flood fill
\* the loop ends with an empty work-list inside the call, having taken at
\* most N*N cells off it and no cell twice: apart from the start cell, which
\* the reveal has just marked, a cell is put on the list only when the loop
\* turns it from unrevealed to revealed, so every cell taken off was
\* unrevealed before the call and is a revealed zero-adjacency cell after it.
FloodFillTermination ==
    [](Playing =>
          \A p \in Cells : FloodStart(p) =>
              LET b1 == [board EXCEPT ![p].is_revealed = TRUE]
                  f == _flood_fill(N, b1, buttons, p[1], p[2])
              IN  /\ Len(f.stack) = 0
                  /\ Len(f.popped) <= N * N
                  /\ f.popped[1] = p
                  /\ \A i \in 1 .. Len(f.popped) :
                        /\ \A j \in 1 .. Len(f.popped) :
                              f.popped[i] = f.popped[j] => i = j
                        /\ ~board[f.popped[i]].is_revealed
                        /\ f.b[f.popped[i]].is_revealed
                        /\ f.b[f.popped[i]].adjacent_mines = 0
                  /\ f.b = reveal(p).board)

\* A 3 x 3 board without mines before its first reveal, whose flood fill
\* takes all nine cells off the work-list, and is then won
FloodFillTerminationWitness ==
    /\ Playing
    /\ N = 3
    /\ Mines = {}
    /\ Outcome(self) = "Won"
    /\ Revealed = Cells
    /\ Flagged = {}

\* C17 - Frame of a losing reveal: a reveal that hits a mine changes
\* is_revealed on mine cells only; every cell that is no mine keeps its
\* is_revealed, a wrongly flagged one included, and every cell keeps its
\* is_flagged, is_mine and adjacent_mines.
LosingRevealFrame ==
    [](Playing /\ ~game_over =>
          \A p \in Cells :
              (board[p].is_mine /\ ~board[p].is_flagged /\ ~board[p].is_revealed) =>
                  LET t == reveal(p) IN
                  /\ Outcome(t) = "Lost"
                  /\ DOMAIN t.board = Cells
                  /\ \A q \in Cells :
                        /\ ~board[q].is_mine =>
                              t.board[q].is_revealed = board[q].is_revealed
                        /\ t.board[q].is_flagged = board[q].is_flagged
                        /\ t.board[q].is_mine = board[q].is_mine
                        /\ t.board[q].adjacent_mines = board[q].adjacent_mines)

\* A lost game with a wrongly flagged cell that is still unrevealed, beside
\* revealed and unrevealed cells that are no mines
LosingRevealWitness ==
    /\ Playing
    /\ Outcome(self) = "Lost"
    /\ \E p \in Cells \ Mines :
          board[p].is_flagged /\ ~board[p].is_revealed /\ buttons[p].text = FlagText
    /\ \E p \in Cells \ Mines : board[p].is_revealed
    /\ \E p \in Cells \ Mines : ~board[p].is_revealed /\ ~board[p].is_flagged
    /\ Mines \subseteq Revealed

\* C18 - Out-of-range coordinates: a reveal or a toggle_flag whose row or
\* col lies outside 0 .. N-1 ends in an error and changes no cell and no
\* game status.
OutOfRangeFailsLoudly ==
    Playing =>
        \A row \in Coordinates : \A col \in Coordinates :
            (row \notin 0 .. (N - 1) \/ col \notin 0 .. (N - 1)) =>
                LET l == left_click(self, row, col)
                    r == right_click(self, row, col)
                IN  /\ l.pc = "IndexError"
                    /\ l.board = board
                    /\ l.game_over = game_over
                    /\ r.pc = "IndexError"
                    /\ r.board = board
                    /\ r.game_over = game_over

\* C19 - In every reachable state a mine is revealed only if the game is
\* lost: no mine is revealed while the game is in progress or won; and in
\* every won game every flagged cell is a mine.
MinesHiddenUntilLoss ==
    [](Playing =>
          /\ \A p \in Cells :
                (board[p].is_mine /\ board[p].is_revealed) => Outcome(self) = "Lost"
          /\ Outcome(self) \in {"InProgress", "Won"} => Mines \cap Revealed = {}
          /\ Outcome(self) = "Won" => Flagged \subseteq Mines)

\* A won game on a board of two mines, one flagged and one not, neither
\* revealed
MinesHiddenWitness ==
    /\ Playing
    /\ Outcome(self) = "Won"
    /\ Cardinality(Mines) = 2
    /\ Cardinality(Flagged) = 1
    /\ Flagged \subseteq Mines
    /\ Mines \cap Revealed = {}
    /\ \A p \in Mines \ Flagged : buttons[p] = blank_button

\* C20 - is_revealed is monotonic: no step sets a revealed cell back to
\* unrevealed; and as long as right_click has not been called in the game,
\* every in-grid neighbour of a revealed zero-adjacency cell is revealed.
RevealedMonotoneAndClosed ==
    /\ [][\A p \in DOMAIN board :
            board[p].is_revealed => (p \in DOMAIN board' /\ board'[p].is_revealed)]_vars
    /\ [](Playing /\ ~toggled =>
            \A z \in Cells :
                (board[z].is_revealed /\ board[z].adjacent_mines = 0) =>
                    \A q \in Cells : Adjacent(z, q) => board[q].is_revealed)

\* A game in progress without any right_click so far in which a flood fill
\* has revealed a zero region and its border, other cells being unrevealed
RevealedClosedWitness ==
    /\ Playing
    /\ ~toggled
    /\ ~game_over
    /\ Cardinality(Mines) = 2
    /\ \E z \in Revealed :
          /\ board[z].adjacent_mines = 0
          /\ Cardinality(Neighbours(z)) >= 5
          /\ Neighbours(z) \subseteq Revealed
    /\ \E q \in Cells \ Mines : ~board[q].is_revealed

====
